---------------------------- MODULE Spec2Model ----------------------------
(***************************************************************************)
(* A model of backfill_claude_export.py: the aggregation pass over a       *)
(* Claude.ai export (process_conversations), the cost estimator            *)
(* (calculate_costs), the summary (export_json_summary), the persistence   *)
(* writer (write_to_sqlite) and the behavioural-stats cache                *)
(* (update_conversation_stats_cache) as they are driven by main().         *)
(*                                                                         *)
(* Units.  Instants are integers in milliseconds.  A calendar date is the  *)
(* number of the local day; the program keeps dates as '%Y-%m-%d' strings  *)
(* and orders them as strings, which for zero-padded ISO dates is the      *)
(* order of the day numbers.  Money is kept in integers: rates in cents    *)
(* per million tokens, an unrounded cost in 1e-8 dollars, a stored cost    *)
(* (round(cost, 4)) in 1e-4 dollars.                                       *)
(***************************************************************************)
EXTENDS Integers, Sequences, FiniteSets, TLC

VARIABLES
    pc,              \* position of the run in main() / the function it is in
    run,             \* which execution of the script this is (1, 2)
    \* ---- process_conversations
    daily_stats,     \* date -> record of counters (the defaultdict)
    date,            \* local: date bucket of the current conversation
    prev_timestamp,  \* local: carry-forward anchor (None or an instant)
    created,         \* local: created_at of the current conversation, as read
    sender,          \* local: sender of the current message
    msg_created,     \* local: created_at of the current message, as read
    dt,              \* local: parsed timestamp of a message (kept until reassigned)
    content,         \* local: the current content block
    n_conv,          \* conversations read so far
    n_msg,           \* messages read so far
    n_blk,           \* content blocks read so far
    valid_convs,     \* history: date -> conversations with a parsable created_at
    \* ---- main / write_to_sqlite
    aggregated,      \* what process_conversations returns for the export
    db_exists,       \* db_path.exists()
    db,              \* committed content of the store
    tx,              \* the connection's view (committed + uncommitted rows)
    backup,          \* content of the .db.backup file (None or a store)
    pre,             \* history: committed store when the run began
    earliest_date,   \* local of write_to_sqlite
    existing_dates,  \* local of write_to_sqlite
    todo,            \* rest of sorted(daily_stats.items())
    imported,
    skipped_exists,
    skipped_after,
    \* ---- main: the files around the store
    export,          \* conversations.json: "ok", "absent" or "unparsable"
    totals,          \* what export_json_summary returns (None before it)
    summary_file,    \* content of backfill_summary.json (None or the totals)
    warned,          \* "WARNING: Database not found" was printed in this run
    cache,           \* content of conversation-stats-cache.json
    pre_cache        \* history: the cache file when the run began

aggLocals == <<date, prev_timestamp, created, sender, msg_created, dt, content,
               n_conv, n_msg, n_blk, valid_convs>>
aggVars   == <<daily_stats, aggLocals>>
writeVars == <<aggregated, db_exists, db, tx, backup, pre, earliest_date,
               existing_dates, todo, imported, skipped_exists, skipped_after>>
mainVars  == <<export, totals, summary_file, warned, cache, pre_cache>>
vars      == <<pc, run, aggVars, writeVars, mainVars>>

None    == <<>>
Some(x) == <<x>>
Val(o)  == o[1]

----------------------------------------------------------------------------
(* Bounds of the model *)

NumDates    == 3     \* dates the store and the computed aggregates range over
MaxTokens   == 40    \* token totals the cost estimator is applied to
MaxRuns     == 2     \* executions of the script on the same export
MaxConvs    == 2     \* conversations of an export
MaxMsgs     == 2     \* messages of an export, over all its conversations
MaxBlocks   == 2     \* content blocks of an export, over all its messages
MaxTimed    == 3     \* messages of an export whose messages have no content

Dates == 1..NumDates

----------------------------------------------------------------------------
(* Pricing and the cost estimator *)

\* MODEL_PRICING, in cents per million tokens
MODEL_PRICING ==
    [opus    |-> [input |-> 1500, output |-> 7500],
     sonnet  |-> [input |-> 300,  output |-> 1500],
     haiku   |-> [input |-> 25,   output |-> 125],
     default |-> [input |-> 300,  output |-> 1500]]

\* (pricing['input'] * 0.1, pricing['input'] * 1.25)
get_cache_rates(pricing) ==
    <<pricing.input \div 10, (pricing.input * 125) \div 100>>

\* Variant: the product rounded up instead of truncated
CacheReadTokensCeil(input_tokens) == (input_tokens * 6 + 9) \div 10

\* int(input_tokens * 0.6): truncation of a non-negative product
CacheReadTokens(input_tokens) == (input_tokens * 6) \div 10

\* int(input_tokens * 0.1)
CacheWriteTokens(input_tokens) == input_tokens \div 10

RegularInputTokens(input_tokens) ==
    input_tokens - CacheReadTokens(input_tokens) - CacheWriteTokens(input_tokens)

\* The sum of lines 379-384, in 1e-8 dollars (cents-per-million * tokens).
RawCost(input_tokens, output_tokens) ==
    LET pricing == MODEL_PRICING.sonnet
        rates   == get_cache_rates(pricing)
    IN  RegularInputTokens(input_tokens) * pricing.input
        + output_tokens * pricing.output
        + CacheReadTokens(input_tokens) * rates[1]
        + CacheWriteTokens(input_tokens) * rates[2]

\* round(cost, 4): 1e-8 dollars to the nearest 1e-4 dollars; an exact tie is
\* decided here to even (on floats it follows the binary value of the sum)
Round4(c) ==
    LET q == c \div 10000
        r == c % 10000
    IN  IF r > 5000 \/ (r = 5000 /\ q % 2 = 1) THEN q + 1 ELSE q

\* One iteration of the loop of calculate_costs: the three keys it adds.
WithCost(stats) ==
    [cost               |-> Round4(RawCost(stats.input_tokens, stats.output_tokens)),
     cache_read_tokens  |-> CacheReadTokens(stats.input_tokens),
     cache_write_tokens |-> CacheWriteTokens(stats.input_tokens)] @@ stats

calculate_costs(ds) == [d \in DOMAIN ds |-> WithCost(ds[d])]


----------------------------------------------------------------------------
(* Values read from the export *)

CHARS_PER_TOKEN == 4

MsPerMinute == 60 * 1000
MsPerHour   == 60 * MsPerMinute
MsPerDay    == 24 * MsPerHour

\* The local timezone dt.astimezone() converts to: UTC+1
TzOffsetMs == MsPerHour

\* A timestamp field as read: absent or null, '', a string fromisoformat
\* rejects, or an ISO-8601 string (with Z or an offset) naming the instant `at`
RawMissing   == [kind |-> "missing",   at |-> 0]
RawEmpty     == [kind |-> "empty",     at |-> 0]
RawMalformed == [kind |-> "malformed", at |-> 0]
Iso(minutes) == [kind |-> "iso", at |-> minutes * MsPerMinute]

\* Python truth of a timestamp field: a non-empty string
Truthy(ts) == ts.kind \in {"malformed", "iso"}

\* Variant: an unparsable string is taken as the epoch instead of None
parse_timestamp_lenient(ts) ==
    IF ~Truthy(ts) THEN None ELSE IF ts.kind = "iso" THEN Some(ts.at) ELSE Some(0)

\* parse_timestamp: None for a falsy argument and for a string that does not
\* parse, else the instant (astimezone keeps the instant)
parse_timestamp(ts) ==
    IF ~Truthy(ts) THEN None
    ELSE IF ts.kind = "iso" THEN Some(ts.at) ELSE None

\* created_dt.strftime('%Y-%m-%d') in local time, as a day number
LocalDate(at) == (at + TzOffsetMs) \div MsPerDay

\* dt.hour in local time
LocalHour(at) == ((at + TzOffsetMs) % MsPerDay) \div MsPerHour

\* A string field as read: absent, null, a number, or a string given by its
\* words (joined by single spaces; "?" and "!" stand alone)
StrMissing  == [kind |-> "missing", words |-> <<>>]
StrNull     == [kind |-> "null",    words |-> <<>>]
StrNumber   == [kind |-> "number",  words |-> <<>>]
Str(words)  == [kind |-> "str",     words |-> words]

RECURSIVE SumLen(_)
SumLen(words) ==
    IF words = <<>> THEN 0 ELSE Len(Head(words)) + SumLen(Tail(words))

\* len(text) of the words joined by single spaces
TextLen(words) ==
    IF words = <<>> THEN 0 ELSE SumLen(words) + Len(words) - 1

\* Variant: the length divided rounding up
estimate_tokens_ceil(length) == (length + CHARS_PER_TOKEN - 1) \div CHARS_PER_TOKEN

\* estimate_tokens: len(text) // CHARS_PER_TOKEN
estimate_tokens(length) == length \div CHARS_PER_TOKEN

CURSE_WORDS == {"damn", "hell", "crap", "shit", "fuck", "ass", "bastard", "bitch"}
POLITE_WORDS == {"please", "thank", "thanks", "appreciate", "grateful", "kindly"}
FRUSTRATION_WORDS ==
    {"frustrated", "annoying", "broken", "stupid", "hate", "ugh", "argh", "wtf"}

Punctuation == {"?", "!"}

\* Words of the vocabulary holding the substring 'please' / 'thank'
HasPlease == {"please"}
HasThank  == {"thank", "thanks"}

RECURSIVE CountIn(_, _)
CountIn(words, S) ==
    IF words = <<>> THEN 0
    ELSE (IF Head(words) \in S THEN 1 ELSE 0) + CountIn(Tail(words), S)

\* analyze_text_personality, the counters kept by word sets and characters
\* (the regex families request_*, sentiment_*, celebrations, lol_count and
\* caps_rage are counters of their own and are not kept here)
analyze_text_personality(words) ==
    [curse_words       |-> CountIn(words, CURSE_WORDS),
     polite_words      |-> CountIn(words, POLITE_WORDS),
     frustration_words |-> CountIn(words, FRUSTRATION_WORDS),
     questions         |-> CountIn(words, {"?"}),
     exclamations      |-> CountIn(words, {"!"}),
     please_count      |-> CountIn(words, HasPlease),
     thanks_count      |-> CountIn(words, HasThank),
     word_count        |-> Len(words) - CountIn(words, Punctuation)]

\* The input of a tool_use block: absent ({} by default), a dict of string
\* pairs, a string, or null
InputMissing    == [kind |-> "missing", pairs |-> <<>>, str |-> <<>>]
InputNull       == [kind |-> "null",    pairs |-> <<>>, str |-> <<>>]
InputDict(prs)  == [kind |-> "dict",    pairs |-> prs,  str |-> <<>>]
InputStr(words) == [kind |-> "str",     pairs |-> <<>>, str |-> words]

RECURSIVE PairsLen(_)
PairsLen(pairs) ==
    IF pairs = <<>> THEN 0
    ELSE Len(Head(pairs)[1]) + Len(Head(pairs)[2]) + 6 + PairsLen(Tail(pairs))

\* len(json.dumps(d)) for a dict of strings: {"k": "v", "k2": "v2"}
JsonDumpsLen(pairs) ==
    IF pairs = <<>> THEN 2 ELSE 2 + PairsLen(pairs) + 2 * (Len(pairs) - 1)

\* lines 341-345: the length of tool_text
ToolTextLen(input) ==
    IF input.kind \in {"missing", "dict"} THEN JsonDumpsLen(input.pairs)
    ELSE IF input.kind = "null" THEN Len("None")
    ELSE TextLen(input.str)

\* A sub-block of a tool_result content list
SubBlock(isrec, text) == [is_record |-> isrec, text |-> text]

\* A content block
Block(isrec, type, text, thinking, start, stop, input, islist, items) ==
    [is_record |-> isrec, type |-> type, text |-> text, thinking |-> thinking,
     start_timestamp |-> start, stop_timestamp |-> stop, input |-> input,
     content_is_list |-> islist, content |-> items]

NotARecord ==
    Block(FALSE, "", StrMissing, StrMissing, RawMissing, RawMissing,
          InputMissing, TRUE, <<>>)
OtherBlock(type) ==
    Block(TRUE, type, StrMissing, StrMissing, RawMissing, RawMissing,
          InputMissing, TRUE, <<>>)
TextBlock(text) ==
    Block(TRUE, "text", text, StrMissing, RawMissing, RawMissing,
          InputMissing, TRUE, <<>>)
ThinkingBlock(thinking, start, stop) ==
    Block(TRUE, "thinking", StrMissing, thinking, start, stop,
          InputMissing, TRUE, <<>>)
ToolUseBlock(input) ==
    Block(TRUE, "tool_use", StrMissing, StrMissing, RawMissing, RawMissing,
          input, TRUE, <<>>)
ToolResultBlock(islist, items) ==
    Block(TRUE, "tool_result", StrMissing, StrMissing, RawMissing, RawMissing,
          InputMissing, islist, items)

----------------------------------------------------------------------------
(* The per-date record of counters *)

\* The defaultdict factory of process_conversations: the counters of a date
\* that this model keeps (the regex-family counters and the code-block
\* counters, which only ever add to themselves, are left out).
ZeroStats ==
    [messages |-> 0, human_messages |-> 0, assistant_messages |-> 0,
     input_tokens |-> 0, output_tokens |-> 0, sessions |-> 0,
     thinking_time_ms |-> 0, user_active_time_ms |-> 0,
     curse_words |-> 0, polite_words |-> 0, frustration_words |-> 0,
     questions |-> 0, exclamations |-> 0, please_count |-> 0,
     thanks_count |-> 0, word_count |-> 0,
     hours |-> <<>>]

----------------------------------------------------------------------------
(* The store: two tables *)

WEB_MODEL == "claude-web"
API_MODEL == "claude-sonnet-4"

EmptyStore == [daily_snapshots |-> <<>>, model_usage |-> <<>>]

\* SELECT MIN(date) FROM daily_snapshots; result[0] if result and result[0] else None
SelectMinDate(store) ==
    LET keys == DOMAIN store.daily_snapshots
    IN  IF keys = {} THEN None
        ELSE Some(CHOOSE d \in keys : \A e \in keys : d <= e)

\* SELECT date FROM daily_snapshots, as a set
SelectDates(store) == DOMAIN store.daily_snapshots

\* INSERT OR REPLACE: the row of that key is replaced or added.
Upsert(table, key, row) ==
    [k \in DOMAIN table \cup {key} |-> IF k = key THEN row ELSE table[k]]

\* sorted(keys), ascending
RECURSIVE SortedSeq(_)
SortedSeq(S) ==
    IF S = {} THEN <<>>
    ELSE LET m == CHOOSE d \in S : \A e \in S : d <= e
         IN  <<m>> \o SortedSeq(S \ {m})

\* Variants of the merge test: the floor test alone, with > for >=
ShouldImportFloorOnlyStrict(d, existing, earliest) ==
    ~(earliest # None /\ d > Val(earliest))

\* the legacy policy: skip a date only when it is already present
ShouldImportLegacy(d, existing, earliest) ==
    d \notin existing

\* no test at all: every computed date replaces what is stored
ShouldImportAlways(d, existing, earliest) ==
    TRUE

\* line 480: if date in existing_dates
SkipExists(d, existing) == d \in existing

\* line 485: if earliest_date and date >= earliest_date
SkipAfter(d, earliest) == earliest # None /\ d >= Val(earliest)

\* lines 478-487: a date reaches the INSERTs when neither test skips it
ShouldImport(d, existing, earliest) ==
    ~SkipExists(d, existing) /\ ~SkipAfter(d, earliest)

\* Variant: the token total without the output tokens
SnapshotRowInputOnly(stats, now) ==
    [cost |-> stats.cost, messages |-> stats.messages,
     tokens |-> stats.input_tokens,
     sessions |-> stats.sessions, created_at |-> now]

\* VALUES (date, cost, messages, total_tokens, sessions); created_at defaults to now
SnapshotRow(stats, now) ==
    [cost |-> stats.cost, messages |-> stats.messages,
     tokens |-> stats.input_tokens + stats.output_tokens,
     sessions |-> stats.sessions, created_at |-> now]

\* VALUES (date, 'claude-web', input, output, cache_read, cache_write)
UsageRow(stats) ==
    [input_tokens |-> stats.input_tokens, output_tokens |-> stats.output_tokens,
     cache_read_tokens |-> stats.cache_read_tokens,
     cache_write_tokens |-> stats.cache_write_tokens]


----------------------------------------------------------------------------
(* export_json_summary and update_conversation_stats_cache *)

Min(a, b) == IF a < b THEN a ELSE b
Max(a, b) == IF a > b THEN a ELSE b

\* totals[...] += stats[field] over the dates of S
RECURSIVE SumField(_, _, _)
SumField(ds, S, field) ==
    IF S = {} THEN 0
    ELSE LET d == CHOOSE x \in S : TRUE
         IN  ds[d][field] + SumField(ds, S \ {d}, field)

Total(ds, field) == SumField(ds, DOMAIN ds, field)

\* lines 597-598: totals['hourly_activity'][hour] += count over the dates of S
RECURSIVE SumHour(_, _, _)
SumHour(ds, S, hour) ==
    IF S = {} THEN 0
    ELSE LET d == CHOOSE x \in S : TRUE
         IN  (IF hour \in DOMAIN ds[d].hours THEN ds[d].hours[hour] ELSE 0)
             + SumHour(ds, S \ {d}, hour)

HourlyActivity(ds) ==
    [hour \in UNION {DOMAIN ds[d].hours : d \in DOMAIN ds} |->
        SumHour(ds, DOMAIN ds, hour)]

\* lines 607-610: min(100, int((please + thanks) / max(human, 1) * 100)).  int()
\* truncates; the quotient is not negative.  (The float product falls below
\* the exact one only for ratios above 1 when human <= 60, where the cap of
\* 100 decides.)
PolitenessScore(please, thanks, human) ==
    Min(100, ((please + thanks) * 100) \div Max(human, 1))

\* export_json_summary: the totals it returns and writes to the summary file
\* (the sums of the counters kept in ZeroStats, the hourly activity and the
\* politeness score)
export_json_summary(ds) ==
    [total_messages           |-> Total(ds, "messages"),
     total_human_messages     |-> Total(ds, "human_messages"),
     total_assistant_messages |-> Total(ds, "assistant_messages"),
     total_input_tokens       |-> Total(ds, "input_tokens"),
     total_output_tokens      |-> Total(ds, "output_tokens"),
     total_cost               |-> Total(ds, "cost"),
     total_sessions           |-> Total(ds, "sessions"),
     days_active              |-> Cardinality(DOMAIN ds),
     total_curse_words        |-> Total(ds, "curse_words"),
     total_questions          |-> Total(ds, "questions"),
     total_exclamations       |-> Total(ds, "exclamations"),
     total_please_count       |-> Total(ds, "please_count"),
     total_thanks_count       |-> Total(ds, "thanks_count"),
     total_word_count         |-> Total(ds, "word_count"),
     hourly_activity          |-> HourlyActivity(ds),
     politeness_score         |->
        PolitenessScore(Total(ds, "please_count"), Total(ds, "thanks_count"),
                        Total(ds, "human_messages"))]

\* The cache file: absent, not readable as JSON, or a JSON object with or
\* without a 'stats' object (a function from key to number)
CacheAbsent     == [kind |-> "absent", source |-> "", stats |-> None,
                    hourCounts |-> <<>>]
CacheUnreadable == [kind |-> "unreadable", source |-> "", stats |-> None,
                    hourCounts |-> <<>>]
CacheJson(source, stats, hourCounts) ==
    [kind |-> "json", source |-> source, stats |-> stats, hourCounts |-> hourCounts]

\* lines 670-701: the stats object built from the totals
CacheStats(t) ==
    [curseWords     |-> t.total_curse_words,
     totalWords     |-> t.total_word_count,
     longestMessage |-> 0,
     questionsAsked |-> t.total_questions,
     exclamations   |-> t.total_exclamations,
     thanksCount    |-> t.total_thanks_count,
     pleaseCount    |-> t.total_please_count]

\* lines 715-717: the keys that are merged, among those kept in CacheStats
MERGED_KEYS ==
    {"curseWords", "totalWords", "questionsAsked", "exclamations", "thanksCount",
     "pleaseCount"}

\* lines 703-719: existing = {} unless the file is there and loads; the merged
\* keys present in existing['stats'] are added to the new values
MergeStats(stats, existing) ==
    IF existing.kind = "json" /\ existing.stats # None
    THEN [k \in DOMAIN stats |->
            IF k \in MERGED_KEYS /\ k \in DOMAIN Val(existing.stats)
            THEN stats[k] + Val(existing.stats)[k]
            ELSE stats[k]]
    ELSE stats

\* lines 725-736: the document written to the cache file
update_conversation_stats_cache(t, existing) ==
    CacheJson("backfill_claude_export.py",
              Some(MergeStats(CacheStats(t), existing)),
              t.hourly_activity)

----------------------------------------------------------------------------
(* main(), from process_conversations to the end of the run.  The run is one
   without --json-only, past the confirmation prompt. *)

\* The locals of process_conversations before their first assignment
AggIdle ==
    /\ date = None /\ prev_timestamp = None /\ created = RawEmpty
    /\ sender = "" /\ msg_created = RawEmpty /\ dt = None /\ content = NotARecord
    /\ n_conv = 0 /\ n_msg = 0 /\ n_blk = 0 /\ valid_convs = <<>>

WriteLocalsReset ==
    /\ earliest_date' = None
    /\ existing_dates' = {}
    /\ todo' = <<>>
    /\ imported' = 0
    /\ skipped_exists' = 0
    /\ skipped_after' = 0

MainIdle ==
    /\ export = "ok" /\ totals = None /\ summary_file = None /\ warned = FALSE
    /\ cache = CacheAbsent /\ pre_cache = CacheAbsent

\* main, line 846: process_conversations exits with status 1 when
\* conversations.json is absent (line 198) and json.load raises when it does
\* not parse (line 202); else it returns the aggregates of the export
ProcessConversations ==
    /\ pc = "process_conversations"
    /\ IF export = "ok"
       THEN /\ daily_stats' = aggregated
            /\ pc' = "calculate_costs"
       ELSE /\ pc' = "fatal"
            /\ UNCHANGED daily_stats
    /\ UNCHANGED <<run, aggLocals, writeVars, mainVars>>

\* main, line 849
CalculateCosts ==
    /\ pc = "calculate_costs"
    /\ daily_stats' = calculate_costs(daily_stats)
    /\ pc' = "export_json_summary"
    /\ UNCHANGED <<run, aggLocals, writeVars>>
    /\ UNCHANGED mainVars

\* main, lines 851-854: the summary file is written, the aggregates are not changed
ExportJsonSummary ==
    /\ pc = "export_json_summary"
    /\ totals' = Some(export_json_summary(daily_stats))
    /\ summary_file' = totals'
    /\ pc' = "db_check"
    /\ UNCHANGED <<run, aggVars, writeVars, export, warned, cache, pre_cache>>

\* Variant: write_to_sqlite is entered without looking for the store
EnterWriteUnchecked ==
    /\ pc = "db_check"
    /\ pc' = "backup"
    /\ UNCHANGED <<run, aggVars, writeVars>>
    /\ UNCHANGED mainVars

\* main, lines 857-862: the store exists, write_to_sqlite is entered
EnterWrite ==
    /\ pc = "db_check"
    /\ db_exists
    /\ pc' = "backup"
    /\ UNCHANGED <<run, aggVars, writeVars>>
    /\ UNCHANGED mainVars

\* main, lines 870-874: WARNING: Database not found
StoreMissing ==
    /\ pc = "db_check"
    /\ ~db_exists
    /\ warned' = TRUE
    /\ pc' = "update_cache"
    /\ UNCHANGED <<run, aggVars, writeVars, export, totals, summary_file, cache,
                   pre_cache>>

\* Variant: a backup file that is already there is kept
BackupKeepOld ==
    /\ pc = "backup"
    /\ backup' = IF db_exists /\ backup = None THEN Some(db) ELSE backup
    /\ pc' = "connect"
    /\ UNCHANGED <<run, aggVars, aggregated, db_exists, db, tx, pre, earliest_date,
                   existing_dates, todo, imported, skipped_exists, skipped_after>>
    /\ UNCHANGED mainVars

\* write_to_sqlite, lines 425-430: shutil.copy(db_path, backup_path)
Backup ==
    /\ pc = "backup"
    /\ backup' = IF db_exists THEN Some(db) ELSE backup
    /\ pc' = "connect"
    /\ UNCHANGED <<run, aggVars, aggregated, db_exists, db, tx, pre, earliest_date,
                   existing_dates, todo, imported, skipped_exists, skipped_after>>
    /\ UNCHANGED mainVars

\* write_to_sqlite, lines 432-476: connect (which makes the file when it is
\* not there), create the tables if absent, read the earliest date and the
\* existing dates, start the loop over sorted(daily_stats)
Connect ==
    /\ pc = "connect"
    /\ tx' = db
    /\ earliest_date' = SelectMinDate(db)
    /\ existing_dates' = SelectDates(db)
    /\ todo' = SortedSeq(DOMAIN daily_stats)
    /\ imported' = 0
    /\ skipped_exists' = 0
    /\ skipped_after' = 0
    /\ db_exists' = TRUE
    /\ pc' = "loop"
    /\ UNCHANGED <<run, aggVars, aggregated, db, backup, pre>>
    /\ UNCHANGED mainVars

\* write_to_sqlite, lines 478-494: one date of the loop, up to the first INSERT
LoopDate ==
    /\ pc = "loop"
    /\ todo # <<>>
    /\ LET d == Head(todo) IN
        IF ShouldImport(d, existing_dates, earliest_date)
        THEN /\ tx' = [tx EXCEPT !.daily_snapshots =
                          Upsert(@, d, SnapshotRow(daily_stats[d], run))]
             /\ pc' = "insert_usage"
             /\ UNCHANGED <<todo, skipped_exists, skipped_after>>
        ELSE IF SkipExists(d, existing_dates)
        THEN /\ skipped_exists' = skipped_exists + 1
             /\ todo' = Tail(todo)
             /\ pc' = "loop"
             /\ UNCHANGED <<tx, skipped_after>>
        ELSE /\ skipped_after' = skipped_after + 1
             /\ todo' = Tail(todo)
             /\ pc' = "loop"
             /\ UNCHANGED <<tx, skipped_exists>>
    /\ UNCHANGED <<run, aggVars, aggregated, db_exists, db, backup, pre,
                   earliest_date, existing_dates, imported>>
    /\ UNCHANGED mainVars

\* Variant: every date is committed as soon as its two rows are written
InsertUsageCommitEach ==
    /\ pc = "insert_usage"
    /\ LET d == Head(todo) IN
        tx' = [tx EXCEPT !.model_usage =
                  Upsert(@, <<d, WEB_MODEL>>, UsageRow(daily_stats[d]))]
    /\ db' = tx'
    /\ imported' = imported + 1
    /\ todo' = Tail(todo)
    /\ pc' = "loop"
    /\ UNCHANGED <<run, aggVars, aggregated, db_exists, backup, pre,
                   earliest_date, existing_dates, skipped_exists, skipped_after>>
    /\ UNCHANGED mainVars

\* write_to_sqlite, lines 496-504: the model_usage row of the same date
InsertUsage ==
    /\ pc = "insert_usage"
    /\ LET d == Head(todo) IN
        tx' = [tx EXCEPT !.model_usage =
                  Upsert(@, <<d, WEB_MODEL>>, UsageRow(daily_stats[d]))]
    /\ imported' = imported + 1
    /\ todo' = Tail(todo)
    /\ pc' = "loop"
    /\ UNCHANGED <<run, aggVars, aggregated, db_exists, db, backup, pre,
                   earliest_date, existing_dates, skipped_exists, skipped_after>>
    /\ UNCHANGED mainVars

\* write_to_sqlite, lines 506-509: conn.commit(); conn.close(); return
Commit ==
    /\ pc = "loop"
    /\ todo = <<>>
    /\ db' = tx
    /\ pc' = "update_cache"
    /\ UNCHANGED <<run, aggVars, aggregated, db_exists, tx, backup, pre,
                   earliest_date, existing_dates, todo, imported, skipped_exists,
                   skipped_after>>
    /\ UNCHANGED mainVars

\* The script is started again on the same export: process_conversations returns
\* the same aggregates, every local starts afresh.
Rerun ==
    /\ pc = "finished"
    /\ run < MaxRuns
    /\ run' = run + 1
    /\ daily_stats' = <<>>
    /\ pre' = db
    /\ WriteLocalsReset
    /\ totals' = None
    /\ warned' = FALSE
    /\ pre_cache' = cache
    /\ pc' = "process_conversations"
    /\ UNCHANGED <<aggLocals, aggregated, db_exists, db, tx, backup, export,
                   summary_file, cache>>

\* main, lines 876-883: print_summary, then the cache file is rewritten
UpdateCache ==
    /\ pc = "update_cache"
    /\ cache' = update_conversation_stats_cache(Val(totals), cache)
    /\ pc' = "finished"
    /\ UNCHANGED <<run, aggVars, writeVars, export, totals, summary_file, warned,
                   pre_cache>>

\* The points of main() at which the process is still running
Running ==
    {"process_conversations", "calculate_costs", "export_json_summary",
     "db_check", "backup", "connect", "loop", "insert_usage", "update_cache"}

\* The process is interrupted (KeyboardInterrupt, kill): nothing handles it,
\* the connection is dropped without a commit and what it had not committed
\* is rolled back
Interrupt ==
    /\ pc \in Running
    /\ pc' = "interrupted"
    /\ tx' = db
    /\ UNCHANGED <<run, aggVars, aggregated, db_exists, db, backup, pre,
                   earliest_date, existing_dates, todo, imported, skipped_exists,
                   skipped_after, mainVars>>

----------------------------------------------------------------------------
(* The stores and the aggregates the writer is run on *)

\* A row the extension wrote for a date (a cost of 1.2345 dollars)
ExtensionRow ==
    [cost |-> 12345, messages |-> 40, tokens |-> 9000, sessions |-> 3,
     created_at |-> 0]

ExtensionUsage ==
    [input_tokens |-> 6000, output_tokens |-> 3000, cache_read_tokens |-> 500,
     cache_write_tokens |-> 50]

\* A claude-web usage row left by an earlier import whose daily row is gone
OrphanUsage ==
    [input_tokens |-> 1, output_tokens |-> 1, cache_read_tokens |-> 0,
     cache_write_tokens |-> 0]

StoreOf(keys, orphans) ==
    [daily_snapshots |-> [d \in keys |-> ExtensionRow],
     model_usage |->
        [k \in {<<d, API_MODEL>> : d \in keys} \cup {<<d, WEB_MODEL>> : d \in orphans}
            |-> IF k[2] = API_MODEL THEN ExtensionUsage ELSE OrphanUsage]]

Stores ==
    {StoreOf(keys, orphans) :
        keys \in SUBSET Dates,
        orphans \in {{}} \cup {{d} : d \in Dates}}

\* Aggregates of a date as process_conversations leaves them (sessions >= 1)
StatChoices ==
    {[ZeroStats EXCEPT !.messages = 2, !.human_messages = 1, !.assistant_messages = 1,
                       !.input_tokens = 10, !.output_tokens = 25, !.sessions = 1,
                       !.please_count = 1, !.polite_words = 1, !.word_count = 9,
                       !.questions = 1, !.hours = (11 :> 2)],
     [ZeroStats EXCEPT !.messages = 5, !.human_messages = 3, !.assistant_messages = 2,
                       !.input_tokens = 7, !.output_tokens = 0, !.sessions = 2,
                       !.please_count = 1, !.thanks_count = 1, !.polite_words = 2,
                       !.curse_words = 1, !.word_count = 6,
                       !.hours = (11 :> 3) @@ (23 :> 2)]}

\* A cache file the extension wrote, holding every merged key but curseWords
ExtensionCache ==
    CacheJson("extension",
              Some([totalWords |-> 100, longestMessage |-> 50,
                    questionsAsked |-> 5, exclamations |-> 1, thanksCount |-> 3,
                    pleaseCount |-> 4]),
              (9 :> 7))

Caches ==
    {CacheAbsent, CacheUnreadable, CacheJson("other", None, <<>>), ExtensionCache}

Exports == {"ok", "absent", "unparsable"}

Aggregates == UNION {[keys -> StatChoices] : keys \in SUBSET Dates}

InitWrite ==
    /\ pc = "process_conversations"
    /\ run = 1
    /\ AggIdle
    /\ aggregated \in Aggregates
    /\ daily_stats = <<>>
    /\ export \in Exports
    /\ totals = None
    /\ summary_file = None
    /\ warned = FALSE
    /\ cache \in Caches
    /\ pre_cache = cache
    /\ db_exists \in BOOLEAN
    /\ db \in (IF db_exists THEN Stores ELSE {EmptyStore})
    /\ tx = db
    /\ pre = db
    /\ backup = None
    /\ earliest_date = None
    /\ existing_dates = {}
    /\ todo = <<>>
    /\ imported = 0
    /\ skipped_exists = 0
    /\ skipped_after = 0

NextWrite ==
    \/ ProcessConversations
    \/ CalculateCosts
    \/ ExportJsonSummary
    \/ EnterWrite
    \/ StoreMissing
    \/ Backup
    \/ Connect
    \/ LoopDate
    \/ InsertUsage
    \/ Commit
    \/ UpdateCache
    \/ Rerun
    \/ Interrupt

SpecWrite == InitWrite /\ [][NextWrite]_vars


\* The cost estimator alone, applied to every pair of token totals in range.
InitCost ==
    /\ pc = "calculate_costs"
    /\ run = 1
    /\ AggIdle
    /\ \E i \in 0..MaxTokens, o \in 0..MaxTokens :
          aggregated = [d \in {1} |->
              [ZeroStats EXCEPT !.input_tokens = i, !.output_tokens = o,
                                !.sessions = 1, !.messages = 1]]
    /\ daily_stats = aggregated
    /\ db_exists = FALSE
    /\ db = EmptyStore
    /\ tx = db
    /\ pre = db
    /\ backup = None
    /\ earliest_date = None
    /\ existing_dates = {}
    /\ todo = <<>>
    /\ imported = 0
    /\ skipped_exists = 0
    /\ skipped_after = 0
    /\ MainIdle

SpecCost == InitCost /\ [][CalculateCosts]_vars

----------------------------------------------------------------------------
(* process_conversations *)

\* daily_stats[d]: the defaultdict makes the record on first access
Touch(ds, d) == IF d \in DOMAIN ds THEN ds ELSE ds @@ (d :> ZeroStats)

\* daily_stats[d][field] += n
Add(ds, d, field, n) == [ds EXCEPT ![d] = [@ EXCEPT ![field] = @ + n]]

\* counts[k] += 1 on a defaultdict(int)
Tally(counts, k) ==
    IF k \in DOMAIN counts THEN [counts EXCEPT ![k] = @ + 1] ELSE counts @@ (k :> 1)

SESSION_GAP_MS == 30 * 60 * 1000

\* Variant: a gap of exactly 30 minutes still counts
ActiveDeltaInclusive(who, prev, at) ==
    IF who = "human" /\ prev # None
    THEN LET delta == at - Val(prev)
         IN  IF 0 < delta /\ delta <= SESSION_GAP_MS THEN delta ELSE 0
    ELSE 0

\* lines 279-283: what a timestamped message adds to user_active_time_ms
ActiveDelta(who, prev, at) ==
    IF who = "human" /\ prev # None
    THEN LET delta == at - Val(prev)
         IN  IF 0 < delta /\ delta < SESSION_GAP_MS THEN delta ELSE 0
    ELSE 0

\* Variant: the anchor moves only when there was none or the delta was counted
NextAnchorCountedOnly(who, stamp, prev) ==
    LET parsed == parse_timestamp(stamp)
    IN  IF Truthy(stamp) /\ parsed # None /\ who = "human"
           /\ (prev = None \/ ActiveDelta(who, prev, Val(parsed)) > 0)
        THEN parsed ELSE prev

\* lines 272-286: prev_timestamp after a message; it is assigned only for a
\* human message whose created_at is non-empty and parses
NextAnchor(who, stamp, prev) ==
    LET parsed == parse_timestamp(stamp)
    IN  IF Truthy(stamp) /\ parsed # None /\ who = "human" THEN parsed ELSE prev

\* lines 330-337: what a thinking block adds to thinking_time_ms
ThinkingSpan(start, stop) ==
    IF Truthy(start) /\ Truthy(stop)
    THEN LET t1 == parse_timestamp(start)
             t2 == parse_timestamp(stop)
         IN  IF t1 # None /\ t2 # None THEN Val(t2) - Val(t1) ELSE 0
    ELSE 0

\* len() of a string field: raises on None and on a number
LenRaises(field) == field.kind \in {"null", "number"}

\* lines 310-314: every count of the classifier is added to the date
AddPersonality(ds, d, counts) ==
    [ds EXCEPT ![d] =
        [f \in DOMAIN @ |-> IF f \in DOMAIN counts THEN @[f] + counts[f] ELSE @[f]]]

\* lines 349-353: the sub-blocks of a tool_result in order; <<raised, tokens>>
RECURSIVE ToolResultTokens(_)
ToolResultTokens(items) ==
    IF items = <<>> THEN <<FALSE, 0>>
    ELSE LET rc == Head(items)
             counted == rc.is_record /\ \/ rc.text.kind = "number"
                                        \/ rc.text.kind = "str" /\ rc.text.words # <<>>
         IN  IF counted /\ LenRaises(rc.text) THEN <<TRUE, 0>>
             ELSE LET rest == ToolResultTokens(Tail(items))
                      own  == IF counted THEN estimate_tokens(TextLen(rc.text.words))
                              ELSE 0
                  IN  <<rest[1], own + rest[2]>>

Outcome(raised, ds) == [raised |-> raised, stats |-> ds]

\* lines 298-353: one content block of a message of `who` on date d.  A raise
\* leaves the counters as they are at the point of the raise.
ProcessBlock(ds, d, who, b) ==
    IF ~b.is_record THEN Outcome(TRUE, ds)
    ELSE IF b.type = "text" THEN
        IF LenRaises(b.text) THEN Outcome(TRUE, ds)
        ELSE LET tokens == estimate_tokens(TextLen(b.text.words))
             IN  IF who = "human"
                 THEN Outcome(FALSE,
                         AddPersonality(Add(ds, d, "input_tokens", tokens), d,
                                        analyze_text_personality(b.text.words)))
                 ELSE Outcome(FALSE, Add(ds, d, "output_tokens", tokens))
    ELSE IF b.type = "thinking" THEN
        IF LenRaises(b.thinking) THEN Outcome(TRUE, ds)
        ELSE Outcome(FALSE,
                Add(Add(ds, d, "output_tokens",
                        estimate_tokens(TextLen(b.thinking.words))),
                    d, "thinking_time_ms",
                    ThinkingSpan(b.start_timestamp, b.stop_timestamp)))
    ELSE IF b.type = "tool_use" THEN
        Outcome(FALSE, Add(ds, d, "output_tokens", estimate_tokens(ToolTextLen(b.input))))
    ELSE IF b.type = "tool_result" THEN
        LET r == ToolResultTokens(IF b.content_is_list THEN b.content ELSE <<>>)
        IN  Outcome(r[1], Add(ds, d, "input_tokens", r[2]))
    ELSE Outcome(FALSE, ds)

\* Variant: a timed message is counted on the local date of its own timestamp
MessageHeaderOwnDate(ds, d, who, stamp, prev) ==
    LET parsed == parse_timestamp(stamp)
        timed  == Truthy(stamp) /\ parsed # None
        own == IF timed THEN LocalDate(Val(parsed)) ELSE d
        ds0 == Touch(ds, own)
        ds1 == IF timed
               THEN Add([ds0 EXCEPT ![own].hours = Tally(@, LocalHour(Val(parsed)))],
                        own, "user_active_time_ms",
                        ActiveDelta(who, prev, Val(parsed)))
               ELSE ds0
        ds2 == Add(ds1, own, "messages", 1)
    IN  IF who = "human" THEN Add(ds2, own, "human_messages", 1)
        ELSE IF who = "assistant" THEN Add(ds2, own, "assistant_messages", 1)
        ELSE ds2

\* Variant: a message without a usable timestamp is not counted at all
MessageHeaderSkipUntimed(ds, d, who, stamp, prev) ==
    LET parsed == parse_timestamp(stamp)
        timed  == Truthy(stamp) /\ parsed # None
        ds1 == IF timed
               THEN Add([ds EXCEPT ![d].hours = Tally(@, LocalHour(Val(parsed)))],
                        d, "user_active_time_ms", ActiveDelta(who, prev, Val(parsed)))
               ELSE ds
        ds2 == Add(ds1, d, "messages", 1)
    IN  IF ~timed THEN ds
        ELSE IF who = "human" THEN Add(ds2, d, "human_messages", 1)
        ELSE IF who = "assistant" THEN Add(ds2, d, "assistant_messages", 1)
        ELSE ds2

\* lines 268-295: the counters a message changes before its content is read
MessageHeader(ds, d, who, stamp, prev) ==
    LET parsed == parse_timestamp(stamp)
        timed  == Truthy(stamp) /\ parsed # None
        ds1 == IF timed
               THEN Add([ds EXCEPT ![d].hours = Tally(@, LocalHour(Val(parsed)))],
                        d, "user_active_time_ms", ActiveDelta(who, prev, Val(parsed)))
               ELSE ds
        ds2 == Add(ds1, d, "messages", 1)
    IN  IF who = "human" THEN Add(ds2, d, "human_messages", 1)
        ELSE IF who = "assistant" THEN Add(ds2, d, "assistant_messages", 1)
        ELSE ds2

(* What an export may hold *)

T_SHORT  == <<"fix">>
T_PLEASE == <<"please", "fix", "broken", "!">>
T_THANKS == <<"thanks">>

\* Conversations created at 10:00 and at 23:50 UTC of day 0 (the latter is
\* day 1 in local time), or with no usable created_at
Conversations ==
    {[created_at |-> c] : c \in {RawEmpty, RawMalformed, Iso(600), Iso(1430)}}

PlainConversations == {[created_at |-> Iso(600)]}

Senders == {"human", "assistant", ""}

\* Messages of each sender, timed at 10:00, 10:10, 10:40, 10:41 UTC or not
\* timed, whose content is a list or null
Messages ==
    {[sender |-> s, created_at |-> c, content_is_list |-> l] :
        s \in Senders,
        c \in {RawEmpty, RawMalformed, Iso(600), Iso(610), Iso(640), Iso(641)},
        l \in BOOLEAN}

PlainMessages ==
    {[sender |-> s, created_at |-> Iso(600), content_is_list |-> TRUE] :
        s \in Senders}

\* Messages of a human or the assistant, timed at 10:00, 10:31, 10:41 UTC or
\* with a timestamp that does not parse, with an empty content list
TimedMessages ==
    {[sender |-> s, created_at |-> c, content_is_list |-> TRUE] :
        s \in {"human", "assistant"},
        c \in {RawMalformed, Iso(600), Iso(631), Iso(641)}}

TextOnlyBlocks == {TextBlock(Str(T_PLEASE)), TextBlock(StrNull)}

Blocks ==
    {NotARecord, OtherBlock("image"), OtherBlock("")}
    \cup {TextBlock(t) : t \in {Str(T_SHORT), Str(T_PLEASE), Str(T_THANKS),
                                StrMissing, StrNull}}
    \cup {ThinkingBlock(Str(T_THANKS), a, b) :
            a \in {RawMalformed, Iso(600), Iso(602)},
            b \in {RawMissing, Iso(600), Iso(602)}}
    \cup {ThinkingBlock(StrNull, Iso(600), Iso(602))}
    \cup {ToolUseBlock(i) :
            i \in {InputMissing, InputNull, InputStr(T_PLEASE),
                   InputDict(<< <<"path", "a.py">> >>)}}
    \cup {ToolResultBlock(FALSE, <<>>),
          ToolResultBlock(TRUE, <<SubBlock(TRUE, Str(T_PLEASE))>>),
          ToolResultBlock(TRUE, <<SubBlock(TRUE, Str(T_THANKS)),
                                  SubBlock(FALSE, StrMissing),
                                  SubBlock(TRUE, StrMissing)>>),
          ToolResultBlock(TRUE, <<SubBlock(TRUE, Str(T_THANKS)),
                                  SubBlock(TRUE, StrNumber)>>)}

\* lines 252-265: the next conversation of the export, one of `convs`
NextConversation(convs) ==
    /\ pc = "conversations"
    /\ n_conv < MaxConvs
    /\ \E conv \in convs :
        /\ n_conv' = n_conv + 1
        /\ created' = conv.created_at
        /\ IF ~Truthy(conv.created_at) \/ parse_timestamp(conv.created_at) = None
           THEN /\ pc' = "conversations"
                /\ UNCHANGED <<daily_stats, date, prev_timestamp>>
           ELSE LET d == LocalDate(Val(parse_timestamp(conv.created_at)))
                IN  /\ date' = Some(d)
                    /\ daily_stats' = Add(Touch(daily_stats, d), d, "sessions", 1)
                    /\ prev_timestamp' = None
                    /\ pc' = "messages"
        /\ valid_convs' =
              IF conv.created_at.kind = "iso"
              THEN Tally(valid_convs, (conv.created_at.at + TzOffsetMs) \div MsPerDay)
              ELSE valid_convs
    /\ UNCHANGED <<run, sender, msg_created, dt, content, n_msg, n_blk, writeVars>>
    /\ UNCHANGED mainVars

\* line 355: the list of conversations is exhausted, return dict(daily_stats)
EndConversations ==
    /\ pc = "conversations"
    /\ pc' = "aggregated"
    /\ aggregated' = daily_stats
    /\ UNCHANGED <<run, aggVars, db_exists, db, tx, backup, pre, earliest_date,
                   existing_dates, todo, imported, skipped_exists, skipped_after>>
    /\ UNCHANGED mainVars

\* lines 267-298: the next message of the conversation, one of `msgs`, of an
\* export of at most `limit` messages
NextMessage(msgs, limit) ==
    /\ pc = "messages"
    /\ n_msg < limit
    /\ \E msg \in msgs :
        LET parsed == parse_timestamp(msg.created_at)
        IN  /\ n_msg' = n_msg + 1
            /\ sender' = msg.sender
            /\ msg_created' = msg.created_at
            /\ dt' = IF Truthy(msg.created_at) THEN parsed ELSE dt
            /\ prev_timestamp' =
                  NextAnchor(msg.sender, msg.created_at, prev_timestamp)
            /\ daily_stats' = MessageHeader(daily_stats, Val(date), msg.sender,
                                            msg.created_at, prev_timestamp)
            /\ pc' = IF msg.content_is_list THEN "content" ELSE "raised"
    /\ UNCHANGED <<run, date, created, content, n_conv, n_blk, valid_convs,
                   writeVars>>
    /\ UNCHANGED mainVars

\* The messages of the conversation are exhausted.  The locals of the
\* conversation are dead from here on (each is assigned again before it is
\* read), so they are put back to their first values.
EndMessages ==
    /\ pc = "messages"
    /\ pc' = "conversations"
    /\ date' = None
    /\ prev_timestamp' = None
    /\ created' = RawEmpty
    /\ UNCHANGED <<run, daily_stats, sender, msg_created, dt, content, n_conv,
                   n_msg, n_blk, valid_convs, writeVars>>
    /\ UNCHANGED mainVars

\* lines 298-353: the next content block of the message, one of `blocks`
NextBlock(blocks) ==
    /\ pc = "content"
    /\ n_blk < MaxBlocks
    /\ \E b \in blocks :
        LET r == ProcessBlock(daily_stats, Val(date), sender, b)
        IN  /\ content' = b
            /\ n_blk' = n_blk + 1
            /\ daily_stats' = r.stats
            /\ pc' = IF r.raised THEN "raised" ELSE "content"
    /\ UNCHANGED <<run, date, prev_timestamp, created, sender, msg_created, dt,
                   n_conv, n_msg, valid_convs, writeVars>>
    /\ UNCHANGED mainVars

\* The content of the message is exhausted.  The locals of the message are
\* dead from here on and are put back to their first values.
EndContent ==
    /\ pc = "content"
    /\ pc' = "messages"
    /\ sender' = ""
    /\ msg_created' = RawEmpty
    /\ dt' = None
    /\ content' = NotARecord
    /\ UNCHANGED <<run, daily_stats, date, prev_timestamp, created, n_conv, n_msg,
                   n_blk, valid_convs, writeVars>>
    /\ UNCHANGED mainVars

InitAgg ==
    /\ pc = "conversations"
    /\ run = 1
    /\ daily_stats = <<>>
    /\ AggIdle
    /\ aggregated = <<>>
    /\ db_exists = FALSE
    /\ db = EmptyStore
    /\ tx = db
    /\ pre = db
    /\ backup = None
    /\ earliest_date = None
    /\ existing_dates = {}
    /\ todo = <<>>
    /\ imported = 0
    /\ skipped_exists = 0
    /\ skipped_after = 0
    /\ MainIdle

\* The pass over exports whose conversations and messages vary in every field
\* and whose content blocks are text blocks.
ReadConversation == NextConversation(Conversations)
ReadMessage      == NextMessage(Messages, MaxMsgs)
ReadTextBlock    == NextBlock(TextOnlyBlocks)

NextAgg ==
    \/ ReadConversation
    \/ EndConversations
    \/ ReadMessage
    \/ EndMessages
    \/ ReadTextBlock
    \/ EndContent

SpecAgg == InitAgg /\ [][NextAgg]_vars

\* The pass over exports whose conversations and messages are well formed and
\* whose content blocks vary in kind, payload and shape.
ReadPlainConversation == NextConversation(PlainConversations)
ReadPlainMessage      == NextMessage(PlainMessages, MaxMsgs)
ReadBlock             == NextBlock(Blocks)

NextBlocks ==
    \/ ReadPlainConversation
    \/ EndConversations
    \/ ReadPlainMessage
    \/ EndMessages
    \/ ReadBlock
    \/ EndContent

SpecBlocks == InitAgg /\ [][NextBlocks]_vars

\* The pass over exports of well-formed conversations whose messages vary in
\* sender and time and have no content blocks.
ReadTimedMessage == NextMessage(TimedMessages, MaxTimed)

NextAnchors ==
    \/ ReadPlainConversation
    \/ EndConversations
    \/ ReadTimedMessage
    \/ EndMessages
    \/ EndContent

SpecAnchor == InitAgg /\ [][NextAnchors]_vars

----------------------------------------------------------------------------
(* Properties of the writer *)

\* The floor-date policy, stated on the store as it was before the write.
FloorPolicy(d, store) ==
    LET keys == DOMAIN store.daily_snapshots
    IN  d \notin keys /\ (keys = {} \/ \A e \in keys : d < e)

\* The daily row of d carries this run's stamp: the run wrote it.
WrittenThisRun(store, d) ==
    /\ d \in DOMAIN store.daily_snapshots
    /\ store.daily_snapshots[d].created_at = run
    /\ (d \in DOMAIN pre.daily_snapshots
          => pre.daily_snapshots[d].created_at # run)

\* C1: when write_to_sqlite has returned, a computed date has been imported
\* if and only if it was not a key of the daily table before the write and the
\* table was empty or the date is strictly below the minimum date it held; the
\* other computed dates are counted as skipped.
C1_FloorDatePolicy ==
    (pc = "finished" /\ db_exists) =>
        /\ \A d \in DOMAIN daily_stats :
              WrittenThisRun(db, d) <=> FloorPolicy(d, pre)
        /\ imported = Cardinality({d \in DOMAIN daily_stats : FloorPolicy(d, pre)})
        /\ imported + skipped_exists + skipped_after = Cardinality(DOMAIN daily_stats)

C1_Witness ==
    /\ pc = "finished" /\ db_exists
    /\ imported > 0 /\ skipped_exists > 0 /\ skipped_after > 0

\* C2: a date that is a key of the daily table before the write keeps its
\* daily row and every model-usage row it had, in the connection's view and in
\* the committed store, at every point of the run.
C2_ExistingRowsUntouched ==
    \A d \in DOMAIN pre.daily_snapshots :
        \A store \in {tx, db} :
            /\ d \in DOMAIN store.daily_snapshots
            /\ store.daily_snapshots[d] = pre.daily_snapshots[d]
            /\ \A m \in {WEB_MODEL, API_MODEL} :
                  /\ <<d, m>> \in DOMAIN store.model_usage
                        <=> <<d, m>> \in DOMAIN pre.model_usage
                  /\ <<d, m>> \in DOMAIN pre.model_usage
                        => store.model_usage[<<d, m>>] = pre.model_usage[<<d, m>>]

C2_Witness ==
    /\ pc = "finished" /\ db_exists
    /\ imported > 0
    /\ \E d \in DOMAIN pre.daily_snapshots \cap DOMAIN daily_stats :
          /\ daily_stats[d].messages # pre.daily_snapshots[d].messages
          /\ <<d, WEB_MODEL>> \in DOMAIN pre.model_usage

\* C3: in a second run on the same export nothing is imported and both tables
\* stay as the first run left them.
C3_RerunImportsNothing ==
    run > 1 => (imported = 0 /\ tx = pre /\ db = pre)

C3_Witness ==
    /\ run > 1 /\ pc = "finished" /\ db_exists
    /\ skipped_exists > 0 /\ skipped_after > 0
    /\ \E d \in DOMAIN db.daily_snapshots : db.daily_snapshots[d].created_at = 1

\* C4: between two dates of the loop and after the commit, every date the run
\* wrote has its daily row (cost, messages, sessions, tokens = input + output)
\* and its (date, 'claude-web') usage row (input, output, cache read, cache
\* write); rows of any other model label are as before, and a claude-web usage
\* row differs from before only for a date the run wrote.
C4_RowsOf(store) ==
    /\ \A d \in DOMAIN daily_stats :
          WrittenThisRun(store, d) =>
            /\ store.daily_snapshots[d] =
                  [cost |-> daily_stats[d].cost,
                   messages |-> daily_stats[d].messages,
                   tokens |-> daily_stats[d].input_tokens + daily_stats[d].output_tokens,
                   sessions |-> daily_stats[d].sessions,
                   created_at |-> run]
            /\ <<d, WEB_MODEL>> \in DOMAIN store.model_usage
            /\ store.model_usage[<<d, WEB_MODEL>>] =
                  [input_tokens |-> daily_stats[d].input_tokens,
                   output_tokens |-> daily_stats[d].output_tokens,
                   cache_read_tokens |-> daily_stats[d].cache_read_tokens,
                   cache_write_tokens |-> daily_stats[d].cache_write_tokens]
    /\ \A k \in DOMAIN store.model_usage \cup DOMAIN pre.model_usage :
          \/ /\ k \in DOMAIN store.model_usage
             /\ k \in DOMAIN pre.model_usage
             /\ store.model_usage[k] = pre.model_usage[k]
          \/ /\ k[2] = WEB_MODEL
             /\ k[1] \in DOMAIN daily_stats
             /\ WrittenThisRun(store, k[1])
    /\ \A d \in DOMAIN store.daily_snapshots :
          d \in DOMAIN pre.daily_snapshots \/ WrittenThisRun(store, d)

C4_BothRowsWritten ==
    /\ pc \in {"loop", "finished"} => C4_RowsOf(tx)
    /\ pc = "finished" => C4_RowsOf(db)

C4_Witness ==
    /\ pc = "finished"
    /\ \E d \in DOMAIN daily_stats :
          /\ WrittenThisRun(db, d)
          /\ daily_stats[d].output_tokens > 0
          /\ daily_stats[d].cost > 0
          /\ <<d, WEB_MODEL>> \in DOMAIN pre.model_usage

----------------------------------------------------------------------------
(* Properties of the summary and of the cache *)

\* n / d rounded to the nearest integer, a tie going to the even one
C11_Round(n, d) ==
    LET q == n \div d
        r == n % d
    IN  IF 2 * r > d \/ (2 * r = d /\ q % 2 = 1) THEN q + 1 ELSE q

\* C11: the politeness score of the totals is
\* min(100, round((please_count + thanks_count) / max(human_messages, 1) * 100)),
\* the percentage rounded to the nearest integer (2 over 3 gives 67).
C11_PolitenessRounded ==
    totals # None =>
        LET t == Val(totals)
        IN  t.politeness_score =
              Min(100, C11_Round((t.total_please_count + t.total_thanks_count) * 100,
                                 Max(t.total_human_messages, 1)))

\* C12: after a second run on the same export every counter of the cache
\* file has the value it had after the first run.
C12_NoDoubleCount ==
    (run > 1 /\ pc = "finished") => cache.stats = pre_cache.stats

----------------------------------------------------------------------------
(* Properties of main() around the store *)

InWrite == {"backup", "connect", "loop", "insert_usage"}

C13_StoreUntouched ==
    ~db_exists =>
        /\ pc \notin InWrite
        /\ db = EmptyStore /\ tx = EmptyStore /\ backup = None
        /\ pc \in {"update_cache", "finished"} =>
              warned /\ summary_file # None /\ summary_file = totals

\* C13: when the store does not exist, main prints the warning and goes on
\* to its end (the cache update and 'Done'), the JSON summary has been written,
\* write_to_sqlite is not entered, and the store is neither created nor
\* written nor backed up.
C13_StoreUnavailable ==
    /\ []C13_StoreUntouched
    /\ [][~db_exists => ~db_exists']_vars
    /\ [][(~db_exists /\ pc = "db_check")
             => (pc' \in {"update_cache", "interrupted"}
                 /\ (pc' = "update_cache" => warned'))]_vars
    /\ [][(~db_exists /\ pc = "update_cache")
             => pc' \in {"finished", "interrupted"}]_vars

\* A run with two dates to import ended without a store
C13_Witness ==
    /\ pc = "finished" /\ ~db_exists /\ warned
    /\ summary_file # None
    /\ Val(summary_file).days_active = 2
    /\ db = EmptyStore /\ backup = None

C14_BackupHeld ==
    /\ (db_exists /\ pc \in {"connect", "loop", "insert_usage"})
          => backup = Some(pre)
    /\ (db_exists /\ ~warned /\ pc \in {"update_cache", "finished"})
          => backup = Some(pre)

\* C14: in a run that enters write_to_sqlite with the store present, the
\* backup is taken first, when the store and the connection still hold what
\* the store held before the run; from then on to the end of the run the
\* backup is that content, whatever the run inserts and commits.
C14_BackupBeforeWrite ==
    /\ []C14_BackupHeld
    /\ [][(pc = "backup" /\ pc' = "connect")
             => (db = pre /\ tx = pre /\ backup' = Some(pre))]_vars
    /\ [][pc # "backup" => backup' = backup]_vars

\* The first run imported a date: the store differs from its backup
C14_Witness ==
    /\ pc = "finished" /\ db_exists /\ run = 1
    /\ imported > 0
    /\ pre.daily_snapshots # <<>>
    /\ backup = Some(pre)
    /\ db # pre

\* The points of a run before the commit of write_to_sqlite
C19_BeforeCommit == Running \ {"update_cache"}

\* C19: the committed rows of both tables change only in the one commit that
\* ends the loop of write_to_sqlite, which makes all rows of the run visible
\* at once; before it, and after an interrupt at any point before it, both
\* tables hold what they held before the run; an export that is absent or
\* does not parse ends the run before the store is backed up, connected to or
\* written.
C19_SingleCommit ==
    /\ [][db' # db => (pc = "loop" /\ todo = <<>> /\ pc' = "update_cache"
                        /\ db' = tx)]_vars
    /\ [](pc \in C19_BeforeCommit => db = pre)
    /\ [][(pc \in C19_BeforeCommit /\ pc' = "interrupted")
             => (db' = pre /\ tx' = pre)]_vars
    /\ [][pc' = "fatal"
             => (pc = "process_conversations" /\ export # "ok"
                 /\ db' = pre /\ tx' = pre /\ backup' = backup
                 /\ db_exists' = db_exists)]_vars
    /\ [](export # "ok" => (pc \in {"process_conversations", "fatal", "interrupted"}
                            /\ db = pre /\ tx = pre /\ backup = None))

\* The run was interrupted in the loop after it had inserted a date and
\* before it had looked at the last one
C19_Witness ==
    /\ pc = "interrupted"
    /\ imported > 0
    /\ todo # <<>>
    /\ pre.daily_snapshots # <<>>
    /\ db = pre /\ tx = pre

----------------------------------------------------------------------------
(* Properties of the cost estimator *)

\* C10: after calculate_costs, for every date the cache-read tokens are
\* floor(0.6 * input), the cache-write tokens floor(0.1 * input), the regular
\* input is what remains, the three parts are non-negative and sum to the
\* input total, and the stored cost is the sum of the parts and the output
\* tokens at the sonnet rates (3, 15, 0.3 and 3.75 dollars per million)
\* rounded to four decimals.
C10_CostSplit ==
    pc = "export_json_summary" =>
        \A d \in DOMAIN daily_stats :
            LET s   == daily_stats[d]
                n   == s.input_tokens
                cr  == s.cache_read_tokens
                cw  == s.cache_write_tokens
                reg == n - cr - cw
                sum == reg * 300 + s.output_tokens * 1500 + cr * 30 + cw * 375
            IN  /\ cr * 10 <= n * 6 /\ n * 6 < (cr + 1) * 10
                /\ cw * 10 <= n /\ n < (cw + 1) * 10
                /\ cr >= 0 /\ cw >= 0 /\ reg >= 0
                /\ reg + cr + cw = n
                /\ s.cost * 10000 - sum <= 5000
                /\ sum - s.cost * 10000 <= 5000

C10_Witness ==
    /\ pc = "export_json_summary"
    /\ \E d \in DOMAIN daily_stats :
          /\ daily_stats[d].input_tokens = 19
          /\ daily_stats[d].cache_read_tokens = 11
          /\ daily_stats[d].cache_write_tokens = 1
          /\ daily_stats[d].cost > 0


----------------------------------------------------------------------------
(* Properties of the aggregation pass *)

\* A step that read a message
MessageStep == pc = "messages" /\ n_msg' = n_msg + 1

\* A step that read a content block
BlockStep == pc = "content" /\ n_blk' = n_blk + 1

\* A step that read a conversation
ConversationStep == pc = "conversations" /\ n_conv' = n_conv + 1

\* C5: a human message with a valid timestamp t, read when the conversation
\* has a previous human timestamp p, adds t - p milliseconds to the
\* user_active_time_ms of the conversation's date when 0 < t - p < 1,800,000
\* and adds nothing otherwise.
C5_ActiveTime ==
    [][(/\ MessageStep
        /\ sender' = "human"
        /\ msg_created'.kind = "iso"
        /\ prev_timestamp # None)
       => LET d     == Val(date)
              delta == msg_created'.at - Val(prev_timestamp)
          IN  daily_stats'[d].user_active_time_ms =
                daily_stats[d].user_active_time_ms
                + (IF 0 < delta /\ delta < 1800000 THEN delta ELSE 0)]_vars

\* Two human messages ten minutes apart: 600,000 ms
C5_Witness ==
    /\ pc = "content"
    /\ sender = "human"
    /\ msg_created = Iso(610)
    /\ prev_timestamp = Some(Iso(610).at)
    /\ daily_stats[Val(date)].user_active_time_ms = 600000
    /\ daily_stats[Val(date)].human_messages = 2

\* C6: a thinking block adds stop - start milliseconds to thinking_time_ms
\* only when both timestamps parse, and a span whose stop is earlier than its
\* start or whose endpoint is missing or unparsable adds nothing.
C6_ThinkingTime ==
    [][(/\ BlockStep
        /\ content'.is_record
        /\ content'.type = "thinking"
        /\ content'.thinking.kind = "str")
       => LET d     == Val(date)
              start == content'.start_timestamp
              stop  == content'.stop_timestamp
          IN  daily_stats'[d].thinking_time_ms =
                daily_stats[d].thinking_time_ms
                + (IF start.kind = "iso" /\ stop.kind = "iso" /\ stop.at >= start.at
                   THEN stop.at - start.at ELSE 0)]_vars

\* C7: when the pass has ended, the sessions of every date are the number of
\* conversations read whose created_at parses and falls on that date, and a
\* date has a record only if such a conversation was read; a conversation
\* whose created_at is empty or does not parse changes no counter.
C7_SessionsAtEnd ==
    pc = "aggregated" =>
        /\ DOMAIN daily_stats = DOMAIN valid_convs
        /\ \A d \in DOMAIN daily_stats : daily_stats[d].sessions = valid_convs[d]

C7_SessionsPerConversation ==
    /\ []C7_SessionsAtEnd
    /\ [][(ConversationStep /\ created'.kind # "iso")
             => daily_stats' = daily_stats]_vars
    /\ [][~ConversationStep
             => \A d \in DOMAIN daily_stats :
                   daily_stats'[d].sessions = daily_stats[d].sessions]_vars

\* Two conversations on one date holding two messages, and the pass ended
C7_Witness ==
    /\ pc = "aggregated"
    /\ n_conv = 2
    /\ n_msg = 2
    /\ \E d \in DOMAIN daily_stats :
          daily_stats[d].sessions = 2 /\ daily_stats[d].messages = 2

\* C15: a human message with a valid timestamp makes that timestamp the
\* anchor whether or not its delta was counted (human messages at t, t + 31
\* min and t + 41 min add 600,000 ms in all); any other message leaves the
\* anchor as it is; reading content leaves it as it is; the anchor is empty
\* when a conversation begins.
C15_CarryForwardAnchor ==
    /\ [][(MessageStep /\ sender' = "human" /\ msg_created'.kind = "iso")
             => prev_timestamp' = Some(msg_created'.at)]_vars
    /\ [][(MessageStep /\ ~(sender' = "human" /\ msg_created'.kind = "iso"))
             => prev_timestamp' = prev_timestamp]_vars
    /\ [][pc = "content" => prev_timestamp' = prev_timestamp]_vars
    /\ [][(ConversationStep /\ pc' = "messages") => prev_timestamp' = None]_vars
    /\ [](pc = "conversations" => prev_timestamp = None)

\* Human messages at 10:00, 10:31 and 10:41 in one conversation
C15_Witness ==
    /\ pc = "content"
    /\ n_conv = 1 /\ n_msg = 3
    /\ sender = "human"
    /\ msg_created = Iso(641)
    /\ prev_timestamp = Some(Iso(641).at)
    /\ daily_stats[Val(date)].human_messages = 3
    /\ daily_stats[Val(date)].hours = (11 :> 3)
    /\ daily_stats[Val(date)].user_active_time_ms = 600000

\* The number-valued counters of a date record
C16_Counters == DOMAIN ZeroStats \ {"hours"}

\* C16: in every step of the pass no counter of a date record (messages,
\* tokens, sessions, thinking_time_ms, user_active_time_ms, lexical counts,
\* hour tallies) goes below its previous value, no date record goes away, and
\* a date record that appears is the zero-valued record with its first
\* session counted.
C16_MonotonicCounters ==
    [][/\ \A d \in DOMAIN daily_stats :
            /\ d \in DOMAIN daily_stats'
            /\ \A f \in C16_Counters : daily_stats'[d][f] >= daily_stats[d][f]
            /\ \A h \in DOMAIN daily_stats[d].hours :
                  /\ h \in DOMAIN daily_stats'[d].hours
                  /\ daily_stats'[d].hours[h] >= daily_stats[d].hours[h]
       /\ \A d \in DOMAIN daily_stats' \ DOMAIN daily_stats :
            daily_stats'[d] = [ZeroStats EXCEPT !.sessions = 1]]_vars

\* The records of the dates other than d are as they were
C17_OthersUnchanged(d) ==
    /\ DOMAIN daily_stats' = DOMAIN daily_stats
    /\ \A e \in DOMAIN daily_stats \ {d} : daily_stats'[e] = daily_stats[e]

\* counts with one more at k
C17_OneMore(counts, k) ==
    [h \in DOMAIN counts \cup {k} |->
        (IF h \in DOMAIN counts THEN counts[h] ELSE 0) + (IF h = k THEN 1 ELSE 0)]

\* C17: the bucket of a conversation is the local date of its created_at;
\* every message of it adds to the messages and the human or assistant
\* counter of that bucket and every content block adds its tokens there, no
\* record of another date changes, also when the message's own timestamp is
\* of another local date; the hour tallied, in that bucket, is the local hour
\* of the message's own timestamp.
C17_DateAttribution ==
    /\ [][(ConversationStep /\ pc' = "messages")
             => date' = Some((created'.at + 3600000) \div 86400000)]_vars
    /\ [][MessageStep =>
             LET d == Val(date)
                 one(who) == IF sender' = who THEN 1 ELSE 0
             IN  /\ date' = date
                 /\ C17_OthersUnchanged(d)
                 /\ daily_stats'[d].messages = daily_stats[d].messages + 1
                 /\ daily_stats'[d].human_messages =
                       daily_stats[d].human_messages + one("human")
                 /\ daily_stats'[d].assistant_messages =
                       daily_stats[d].assistant_messages + one("assistant")
                 /\ daily_stats'[d].hours =
                       IF msg_created'.kind = "iso"
                       THEN C17_OneMore(daily_stats[d].hours,
                               ((msg_created'.at + 3600000) % 86400000) \div 3600000)
                       ELSE daily_stats[d].hours]_vars
    /\ [][BlockStep =>
             LET d == Val(date)
             IN  /\ date' = date
                 /\ C17_OthersUnchanged(d)
                 /\ (pc' # "raised" /\ content'.text.kind = "str") =>
                       daily_stats'[d].input_tokens + daily_stats'[d].output_tokens =
                         daily_stats[d].input_tokens + daily_stats[d].output_tokens
                         + TextLen(content'.text.words) \div 4]_vars

\* A conversation created at 23:50 UTC (the next local day) holds a message
\* sent at 10:00 UTC of the day before, on which another conversation began
C17_Witness ==
    /\ pc = "content"
    /\ n_blk = 1
    /\ DOMAIN daily_stats = {0, 1}
    /\ date = Some(1)
    /\ sender = "human"
    /\ msg_created = Iso(600)
    /\ daily_stats[1].messages = 1 /\ daily_stats[1].human_messages = 1
    /\ daily_stats[1].hours = (11 :> 1)
    /\ daily_stats[1].input_tokens = 4
    /\ daily_stats[0].messages = 0 /\ daily_stats[0].input_tokens = 0
    /\ daily_stats[0].hours = <<>>

C18_Untimed == {"missing", "empty", "malformed"}

\* C18 as claimed: a message whose timestamp is empty or malformed changes
\* no counter of the date bucket and leaves the anchor where it was.
C18_UntimedMessageSkipped ==
    [][(MessageStep /\ msg_created'.kind \in C18_Untimed /\ pc' = "content")
         => (daily_stats' = daily_stats /\ prev_timestamp' = prev_timestamp)]_vars

\* C18: a message whose timestamp is empty or malformed yields no timestamp
\* and does not raise; what depends on the timestamp is skipped (no hour is
\* tallied, nothing is added to user_active_time_ms) and the anchor stays at
\* the last valid human timestamp; the message is still counted in messages
\* and in human_messages or assistant_messages of the conversation's date, no
\* other counter changes, and its text blocks add their tokens as usual.
C18_UntimedMessage ==
    /\ [][(MessageStep /\ msg_created'.kind \in C18_Untimed) =>
             LET d == Val(date)
                 counted == {"messages"}
                            \cup (IF sender' = "human" THEN {"human_messages"} ELSE {})
                            \cup (IF sender' = "assistant" THEN {"assistant_messages"}
                                  ELSE {})
             IN  /\ dt' = None
                 /\ prev_timestamp' = prev_timestamp
                 /\ C17_OthersUnchanged(d)
                 /\ \A f \in DOMAIN ZeroStats :
                       daily_stats'[d][f] =
                         IF f \in counted THEN daily_stats[d][f] + 1
                         ELSE daily_stats[d][f]]_vars
    /\ [][(BlockStep /\ msg_created.kind \in C18_Untimed
                      /\ content'.text.kind = "str") =>
             LET d == Val(date)
                 tokens == TextLen(content'.text.words) \div 4
             IN  IF sender = "human"
                 THEN daily_stats'[d].input_tokens = daily_stats[d].input_tokens + tokens
                 ELSE daily_stats'[d].output_tokens =
                        daily_stats[d].output_tokens + tokens]_vars

\* After a human message at 10:00, a human message whose timestamp does not
\* parse was counted and its text block read; the anchor is still 10:00
C18_Witness ==
    /\ pc = "content"
    /\ n_msg = 2 /\ n_blk = 1
    /\ sender = "human"
    /\ msg_created = RawMalformed
    /\ prev_timestamp = Some(Iso(600).at)
    /\ daily_stats[Val(date)].messages = 2
    /\ daily_stats[Val(date)].human_messages = 2
    /\ daily_stats[Val(date)].hours = (11 :> 1)
    /\ daily_stats[Val(date)].user_active_time_ms = 0
    /\ daily_stats[Val(date)].input_tokens = 4

\* The tokens of the sub-blocks of a tool_result that carry a text
RECURSIVE C8_SubTokens(_)
C8_SubTokens(items) ==
    IF items = <<>> THEN 0
    ELSE (IF Head(items).is_record /\ Head(items).text.kind = "str"
          THEN TextLen(Head(items).text.words) \div 4 ELSE 0)
         + C8_SubTokens(Tail(items))

\* C8: a content block changes input_tokens only when it is a text block of a
\* human sender (by floor(len / 4)) or a tool_result (by the tokens of its
\* sub-blocks that carry a text); it changes output_tokens only when it is a
\* text block of another sender, a thinking block or a tool_use block; a block
\* of any other type changes no counter and does not raise; reading a
\* conversation or a message changes no token counter.
C8_TokenRouting ==
    [][/\ BlockStep =>
            LET d   == Val(date)
                b   == content'
                in  == daily_stats'[d].input_tokens - daily_stats[d].input_tokens
                out == daily_stats'[d].output_tokens - daily_stats[d].output_tokens
                known == b.is_record
                         /\ b.type \in {"text", "thinking", "tool_use", "tool_result"}
            IN  /\ in # 0 => /\ b.is_record
                             /\ \/ b.type = "text" /\ sender = "human"
                                \/ b.type = "tool_result"
                /\ out # 0 => /\ b.is_record
                              /\ \/ b.type = "text" /\ sender # "human"
                                 \/ b.type \in {"thinking", "tool_use"}
                /\ (b.is_record /\ b.type = "text" /\ pc' # "raised") =>
                      LET tokens == TextLen(b.text.words) \div 4
                      IN  IF sender = "human" THEN in = tokens /\ out = 0
                          ELSE in = 0 /\ out = tokens
                /\ (b.is_record /\ b.type = "thinking" /\ pc' # "raised") =>
                      out = TextLen(b.thinking.words) \div 4
                /\ (b.is_record /\ b.type = "tool_result" /\ pc' # "raised") =>
                      in = C8_SubTokens(IF b.content_is_list THEN b.content ELSE <<>>)
                /\ (b.is_record /\ ~known) =>
                      daily_stats' = daily_stats /\ pc' # "raised"
       /\ ~BlockStep =>
            \A d \in DOMAIN daily_stats :
                /\ daily_stats'[d].input_tokens = daily_stats[d].input_tokens
                /\ daily_stats'[d].output_tokens = daily_stats[d].output_tokens]_vars

\* A human text block of 19 characters (4 tokens) and a tool_result were read
C8_Witness ==
    /\ pc = "content"
    /\ sender = "human"
    /\ n_blk = 2
    /\ content.type = "tool_result"
    /\ content.content # <<>>
    /\ daily_stats[Val(date)].input_tokens = 5
    /\ daily_stats[Val(date)].output_tokens = 0

\* C9: no record of the export aborts the pass, whatever its timestamps,
\* fields and content shapes are.
C9_NeverAborts == pc # "raised"

=============================================================================
